---- MODULE Spec2Model ----
(***************************************************************************)
(* Chunked transcription pipeline of AudioExtractor.                       *)
(*                                                                         *)
(* One run of one backend is modelled from its entry point to its return:  *)
(*   google   main.audio_to_text                                           *)
(*   vosk     transcribe_manager.transcribe_with_vosk, which calls         *)
(*            vosk_transcriber.transcribe_with_vosk                        *)
(*   whisper  transcribe_manager.transcribe_with_whisper, which calls      *)
(*            whisper_transcriber.transcribe_with_whisper                  *)
(*                                                                         *)
(* Times are in milliseconds, as pydub measures them.  A text is a         *)
(* sequence of strings and stands for their concatenation: each element    *)
(* is one whitespace character or a string without whitespace (a single    *)
(* character in the texts of a run, a whole word in the texts given to a   *)
(* formatter alone).  The Cyrillic letters of the program's messages are   *)
(* written letter for letter in ASCII, so lengths and spaces are those of  *)
(* the source.  What the outside world decides (a                          *)
(* decoder that fails, the answer of a recognition backend, the format of  *)
(* a WAV file on disk) is a nondeterministic choice of the action that     *)
(* asks for it.                                                            *)
(***************************************************************************)
EXTENDS Integers, Sequences, FiniteSets, TLC

\* ------------------------------------------------------------------ bounds

\* Durations run up to MaxSegs segment lengths of the backend.
MaxSegs == 3

\* The texts given to a formatter alone have up to MaxWords words, whose
\* lengths repeat a pattern of up to MaxPattern lengths.
MaxWords == 11

MaxPattern == 3

\* ------------------------------------------------------- program constants

\* main.py:177  max_retries = 5
max_retries == 5

\* main.py:187  chunk_duration = 30 * 1000 (milliseconds)
chunk_duration == 30 * 1000

\* vosk_transcriber.py:125  segment_length_sec=300
vosk_segment_length_sec == 300

\* whisper_transcriber.py:58  segment_length_sec=600
whisper_segment_length_sec == 600

\* -------------------------------------------------------------------- text

Space == " "

\* str(n) of a natural number, as characters.
RECURSIVE Str(_)
Str(n) ==
    IF n < 10
    THEN <<SubSeq(<<"0", "1", "2", "3", "4", "5", "6", "7", "8", "9">>, n + 1, n + 1)[1]>>
    ELSE Str(n \div 10) \o Str(n % 10)

\* sep.join(list): the texts of list with sep between neighbours.
RECURSIVE Join(_, _)
Join(list, sep) ==
    IF list = <<>> THEN <<>>
    ELSE IF Len(list) = 1 THEN list[1]
    ELSE list[1] \o sep \o Join(Tail(list), sep)

PlaceholderPrefix ==
    <<"[", "N", "e", " ", "u", "d", "a", "l", "o", "s", "'", " ", "r", "a",
      "s", "p", "o", "z", "n", "a", "t", "'", " ", "4", "a", "s", "t", "'",
      " ">>

\* main.py:229  the placeholder of a chunk that was not recognized
Placeholder(current_chunk) == PlaceholderPrefix \o Str(current_chunk) \o <<"]">>

ErrVoskDependencies ==
    <<"O", "w", "i", "b", "k", "a", ":", " ", "V", "o", "s", "k", " ", "n",
      "e", " ", "u", "s", "t", "a", "n", "o", "v", "l", "e", "n", " ", "i",
      "l", "i", " ", "m", "o", "d", "e", "l", "'", " ", "n", "e", " ", "n",
      "a", "j", "d", "e", "n", "a">>

ErrPrepare ==
    <<"O", "w", "i", "b", "k", "a", " ", "p", "r", "i", " ", "p", "o", "d",
      "g", "o", "t", "o", "v", "k", "e", " ", "a", "u", "d", "i", "o">>

ErrFormat ==
    <<"O", "w", "i", "b", "k", "a", ":", " ", "N", "e", "k", "o", "r", "r",
      "e", "k", "t", "n", "y", "j", " ", "f", "o", "r", "m", "a", "t", " ",
      "a", "u", "d", "i", "o">>

\* The fixed prefix of the message returned when recognition raises; the
\* exception's own message, which follows it, is left out.
ErrRecognition ==
    <<"O", "w", "i", "b", "k", "a", " ", "r", "a", "s", "p", "o", "z", "n",
      "a", "v", "a", "n", "i", "x", ":", " ">>

ErrWhisperDependencies ==
    <<"O", "w", "i", "b", "k", "a", ":", " ", "W", "h", "i", "s", "p", "e",
      "r", " ", "n", "e", " ", "u", "s", "t", "a", "n", "o", "v", "l", "e",
      "n">>

\* What a backend recognizes in a segment that holds speech.
Texts == {<<"a">>, <<"b">>, <<"c">>}

\* --------------------------------------------------------------- formatter

\* main.py:102  max_line_length = 120
main_max_line_length == 120

\* main.py:127  len(current_paragraph) >= 5
main_paragraph_lines == 5

\* vosk_transcriber.py:371  max_line_length = 80
vosk_max_line_length == 80

\* vosk_transcriber.py:396  len(current_paragraph) >= 4
vosk_paragraph_lines == 4

\* whisper_transcriber.py:210  max_line_length = 80
whisper_max_line_length == 80

\* whisper_transcriber.py:235  len(current_paragraph) >= 4
whisper_paragraph_lines == 4

NewLine == "\n"

\* The characters str.split() separates words at.
Whitespace == {Space, NewLine, "\t"}

\* text.split() read from left to right: cur is the word begun, "" when the
\* last element read was whitespace.
RECURSIVE SplitFrom(_, _)
SplitFrom(t, cur) ==
    IF t = <<>>
    THEN IF cur = "" THEN <<>> ELSE <<cur>>
    ELSE IF Head(t) \in Whitespace
    THEN (IF cur = "" THEN <<>> ELSE <<cur>>) \o SplitFrom(Tail(t), "")
    ELSE SplitFrom(Tail(t), cur \o Head(t))

\* text.split(): the words of a text, each as one string.
Split(t) == SplitFrom(t, "")

\* sep.join(words) for a list of words.
JoinWords(words, sep) == Join([k \in 1..Len(words) |-> <<words[k]>>], sep)

\* ' '.join(text.split())
Collapse(t) == JoinWords(Split(t), <<Space>>)

\* len(text): the number of characters.
RECURSIVE TextLen(_)
TextLen(t) == IF t = <<>> THEN 0 ELSE Len(Head(t)) + TextLen(Tail(t))

\* The test with the space before the word left out.
FitsWithoutSpace(current_length, word_length, max_line_length) ==
    current_length + word_length <= max_line_length

\* main.py:114  current_length + word_length + 1 <= max_line_length
Fits(current_length, word_length, max_line_length) ==
    current_length + word_length + 1 <= max_line_length

\* The test one line late.
ParagraphFullLate(lines, cap) == lines > cap

\* main.py:127  len(current_paragraph) >= 5
ParagraphFull(lines, cap) == lines >= cap

\* main.py:104-107  the loop's variables before the first word.
ReflowStart ==
    [current_line |-> <<>>, current_length |-> 0, paragraphs |-> <<>>,
     current_paragraph |-> <<>>]

\* The finished line never added to the paragraph.
WithLineForgotten(st) == st.current_paragraph

\* main.py:118-120  the paragraph after the finished line, if there is one,
\* was added to it.
WithLine(st) ==
    IF st.current_line # <<>>
    THEN Append(st.current_paragraph, JoinWords(st.current_line, <<Space>>))
    ELSE st.current_paragraph

\* main.py:111-129  one pass of the loop over the words.
AddWord(st, word, max_line_length, cap) ==
    IF Fits(st.current_length, Len(word), max_line_length)
    THEN [st EXCEPT !.current_line = Append(@, word),
                    !.current_length = @ + Len(word) + 1]
    ELSE [current_line |-> <<word>>,
          current_length |-> Len(word),
          paragraphs |->
              IF ParagraphFull(Len(WithLine(st)), cap)
              THEN Append(st.paragraphs, Join(WithLine(st), <<NewLine>>))
              ELSE st.paragraphs,
          current_paragraph |->
              IF ParagraphFull(Len(WithLine(st)), cap)
              THEN <<>> ELSE WithLine(st)]

\* main.py:110  for word in words
RECURSIVE ReflowLoop(_, _, _, _)
ReflowLoop(words, st, max_line_length, cap) ==
    IF words = <<>> THEN st
    ELSE ReflowLoop(Tail(words), AddWord(st, Head(words), max_line_length, cap),
                    max_line_length, cap)

\* main.py:131-135  the last line and the last paragraph.
ReflowEnd(st) ==
    IF WithLine(st) # <<>>
    THEN Append(st.paragraphs, Join(WithLine(st), <<NewLine>>))
    ELSE st.paragraphs

\* main.py:103-135  the list paragraphs of the words of a text.
Reflow(words, max_line_length, cap) ==
    ReflowEnd(ReflowLoop(words, ReflowStart, max_line_length, cap))

\* len(p.split('\n')) of a paragraph.
RECURSIVE LineCount(_)
LineCount(p) ==
    IF p = <<>> THEN 1
    ELSE (IF Head(p) = NewLine THEN 1 ELSE 0) + LineCount(Tail(p))

\* sum(len(p.split('\n')) for p in paragraphs)
RECURSIVE TotalLines(_)
TotalLines(paragraphs) ==
    IF paragraphs = <<>> THEN 0
    ELSE LineCount(Head(paragraphs)) + TotalLines(Tail(paragraphs))

\* main.py:99  "ТРАНСКРИПЦИЯ АУДИО\n"
MainHeader == <<"TRANSKRIPCIX", Space, "AUDIO", NewLine>>

\* vosk_transcriber.py:368  "ТРАНСКРИПЦИЯ АУДИО (VOSK)\n\n"
VoskHeader ==
    <<"TRANSKRIPCIX", Space, "AUDIO", Space, "(VOSK)", NewLine, NewLine>>

\* whisper_transcriber.py:207  "ТРАНСКРИПЦИЯ АУДИО (WHISPER)\n\n"
WhisperHeader ==
    <<"TRANSKRIPCIX", Space, "AUDIO", Space, "(WHISPER)", NewLine, NewLine>>

\* f"Количество <what>: {n}\n"
CountLine(what, n) ==
    <<"Koli4estvo", Space, what, Space>> \o Str(n) \o <<NewLine>>

\* The four counts with the characters counted over the re-flowed body.
MainStatsOverBody(text, words, paragraphs) ==
    CountLine("strok:", TotalLines(paragraphs))
      \o CountLine("slov:", Len(words))
      \o CountLine("simvolov:", TextLen(Join(paragraphs, <<NewLine, NewLine>>)))
      \o CountLine("paragrafov:", Len(paragraphs))

\* main.py:141-144  the four counts, straight after the last line.
MainStats(text, words, paragraphs) ==
    CountLine("strok:", TotalLines(paragraphs))
      \o CountLine("slov:", Len(words))
      \o CountLine("simvolov:", TextLen(text))
      \o CountLine("paragrafov:", Len(paragraphs))

\* vosk_transcriber.py:410-412, whisper_transcriber.py:249-251
\* "\n\nСтатистика:\n" and the two counts.
LocalStats(text, words) ==
    <<NewLine, NewLine, "Statistika:", NewLine>>
      \o CountLine("slov:", Len(words))
      \o CountLine("simvolov:", TextLen(text))

\* The formatter counting the characters of the text it was given.
format_text_raw_count(t) ==
    MainHeader
      \o Join(Reflow(Split(Collapse(t)), main_max_line_length,
                     main_paragraph_lines), <<NewLine, NewLine>>)
      \o MainStats(t, Split(Collapse(t)),
                   Reflow(Split(Collapse(t)), main_max_line_length,
                          main_paragraph_lines))

\* main.py:93-146  format_text
format_text(t) ==
    LET text == Collapse(t)
        words == Split(text)
        paragraphs == Reflow(words, main_max_line_length, main_paragraph_lines)
    IN MainHeader \o Join(paragraphs, <<NewLine, NewLine>>)
         \o MainStats(text, words, paragraphs)

\* vosk_transcriber.py:362-414  format_vosk_result
format_vosk_result(t) ==
    LET text == Collapse(t)
        words == Split(text)
        paragraphs == Reflow(words, vosk_max_line_length, vosk_paragraph_lines)
    IN VoskHeader \o Join(paragraphs, <<NewLine, NewLine>>)
         \o LocalStats(text, words)

\* whisper_transcriber.py:201-253  format_whisper_result
format_whisper_result(t) ==
    LET text == Collapse(t)
        words == Split(text)
        paragraphs == Reflow(words, whisper_max_line_length,
                             whisper_paragraph_lines)
    IN WhisperHeader \o Join(paragraphs, <<NewLine, NewLine>>)
         \o LocalStats(text, words)

\* ------------------------------------------------------------------- audio

Min(a, b) == IF a <= b THEN a ELSE b

\* ceil(d / L) for positive L.
Ceil(d, L) == (d + L - 1) \div L

Methods == {"google", "vosk", "whisper"}

\* The segment length the backend's segmenter is called with, in ms.
SegmentLengthMs(m) ==
    CASE m = "google" -> chunk_duration
      [] m = "vosk" -> vosk_segment_length_sec * 1000
      [] m = "whisper" -> whisper_segment_length_sec * 1000

\* The source durations tried for a segment length L: every half multiple
\* of L up to MaxSegs * L (for L = 30 s: 15 s, 30 s, 45 s, 60 s, 75 s, ...).
Durations(L) == {k * (L \div 2) : k \in 1..(2 * MaxSegs)}

\* pydub's audio[start_ms:end_ms]: the bounds are clamped to the audio.
Slice(len, start_ms, end_ms) ==
    [start |-> Min(start_ms, len), end |-> Min(end_ms, len)]

\* A file of the working directory: kind names it, n is the ordinal in the
\* name of a segment file and 0 elsewhere.
File(kind, n) == [kind |-> kind, n |-> n]

\* The file the caller passes in.
InputFile == File("input", 0)

\* main.py:70  output/<name>_temp.wav
TempWav == File("temp_wav", 0)

\* main.py:151-152  output/chunks/<name>_chunk_<n>.wav
ChunkFile(chunk_number) == File("chunk", chunk_number)

\* main.py:242  output/<name>.txt
GoogleTxt == File("google_txt", 0)

\* What matters of the format of an audio file: mono, 16 kHz, linear PCM, or
\* anything else.
Canonical == "mono_16k_pcm"

AudioFormats == {Canonical, "other"}

\* The names a caller's file can have: not a .wav, a .wav, a .wav whose name
\* ends in _temp.wav.
InputKinds == {"other", "wav", "temp_wav"}

\* --------------------------------------------------------------- variables

VARIABLES
    method,        \* the backend of the run
    input_kind,    \* the kind of name of the caller's file
    input_format,  \* the audio format of the caller's file
    duration,      \* length of the source audio, ms
    pc,            \* position of the run
    files,         \* the files that exist
    audio_path,    \* the file the run reads its audio from
    segments,      \* the segments cut so far: [ordinal, start, end, path]
    offset,        \* main.audio_to_text: offset of the next chunk, ms
    total_chunks,  \* main.audio_to_text: the announced number of chunks
    pbar,          \* number of progress updates
    attempt,       \* main.audio_to_text: index of the next attempt
    success,       \* main.audio_to_text: the chunk was recognized
    prepared_audio,\* vosk, whisper: the prepared WAV ("none" before it)
    i,             \* vosk, whisper: index of the next segment, from 0
    full_text,     \* google: list of texts; vosk, whisper: one text
    text,          \* the assembled text handed to the formatter
    formatted_text,\* a formatter called alone: what it returned
    result,        \* "True" or "False" as the run returned, "none" before
    calls,         \* history: recognition calls made for the current segment
    firstOutcome,  \* history: outcome of the first of those calls
    lastOutcome,   \* history: outcome of the latest of those calls
    segKind,       \* history: per processed segment, how it ended
    segText,       \* history: per processed segment, the recognized text
    fatal,         \* history: the fatal condition that ended the run
    model,         \* vosk, whisper: the recognition model of the run
    waited,        \* history: the waits made for the current chunk, seconds
    gui,           \* the window of transcribe_manager.TranscriptionApp
    names          \* two runs side by side: the paths each of them writes

vars ==
    <<method, input_kind, input_format, formatted_text, duration, pc, files,
      audio_path, segments, offset, total_chunks, pbar, attempt, success,
      prepared_audio, i, full_text, text, result, calls, firstOutcome,
      lastOutcome, segKind, segText, fatal, model, waited, gui, names>>

\* ---------------------------------------------------------------- the run

\* The recognition model of a local backend: how many times the run has
\* loaded it, and whether the run has released it.
NoModel == [loads |-> 0, released |-> FALSE]

\* vosk_transcriber.py:189  model = Model(VOSK_MODEL_PATH)
\* whisper_transcriber.py:118  model = whisper.load_model(model_size, ...)
Loaded(m) == [m EXCEPT !.loads = @ + 1]

\* whisper_transcriber.py:181-182  del model; gc.collect()
Released(m) == [m EXCEPT !.released = TRUE]

Init ==
    /\ method \in Methods
    /\ input_kind \in InputKinds
    /\ input_format \in AudioFormats
    /\ duration \in Durations(SegmentLengthMs(method))
    /\ pc = "start"
    /\ files = {InputFile}
    /\ audio_path = InputFile
    /\ segments = <<>>
    /\ offset = 0
    /\ total_chunks = 0
    /\ pbar = 0
    /\ attempt = 0
    /\ success = FALSE
    /\ prepared_audio = File("none", 0)
    /\ i = 0
    /\ full_text = <<>>
    /\ text = <<>>
    /\ formatted_text = <<>>
    /\ result = "none"
    /\ calls = 0
    /\ firstOutcome = "none"
    /\ lastOutcome = "none"
    /\ segKind = <<>>
    /\ segText = <<>>
    /\ fatal = "none"
    /\ model = NoModel
    /\ waited = <<>>
    /\ gui = <<>>
    /\ names = <<>>

\* The run ends: it returns value; cause is the fatal condition, if any.
Return(value, cause) ==
    /\ result' = value
    /\ fatal' = cause
    /\ pc' = "done"

\* ------------------------------------------------- main.audio_to_text

\* main.py:164-169  convert to WAV unless the name ends in .wav.
GoogleConvert ==
    /\ pc = "start"
    /\ method = "google"
    /\ IF input_kind = "other"
       THEN \E converted \in BOOLEAN :
              IF converted
              THEN /\ files' = files \cup {TempWav}
                   /\ audio_path' = TempWav
                   /\ pc' = "g_load"
                   /\ UNCHANGED <<result, fatal>>
              ELSE /\ Return("False", "prepare")
                   /\ UNCHANGED <<files, audio_path>>
       ELSE /\ pc' = "g_load"
            /\ UNCHANGED <<files, audio_path, result, fatal>>
    /\ UNCHANGED <<model, waited, gui, names,
                   method, input_kind, input_format, formatted_text,
                   duration, prepared_audio, i, segments,
                   offset, total_chunks, pbar, attempt, success, full_text,
                   text, calls, firstOutcome, lastOutcome, segKind, segText>>

\* main.py:182  total_chunks = int(duration // 30) + 1
TotalChunks(d) == (d \div chunk_duration) + 1

\* main.py:172-189  load the WAV, open it, announce the number of chunks.
GoogleLoad ==
    /\ pc = "g_load"
    /\ \E readable \in BOOLEAN :
         IF readable
         THEN /\ total_chunks' = TotalChunks(duration)
              /\ offset' = 0
              /\ full_text' = <<>>
              /\ pc' = "g_loop"
              /\ UNCHANGED <<result, fatal>>
         ELSE /\ Return("False", "unreadable")
              /\ UNCHANGED <<total_chunks, offset, full_text>>
    /\ UNCHANGED <<model, waited, gui, names,
                   method, input_kind, input_format, formatted_text,
                   duration, prepared_audio, i, files,
                   audio_path, segments, pbar, attempt, success, text, calls,
                   firstOutcome, lastOutcome, segKind, segText>>

\* The chunk number counted from zero.
CurrentChunkFromZero(off) == off \div chunk_duration

\* main.py:193  current_chunk = offset//(chunk_duration) + 1
CurrentChunk(off) == (off \div chunk_duration) + 1

\* main.py:192-207  the loop test; cut the next chunk and save it.  A chunk
\* that cannot be saved has path None, and opening it raises.
GoogleNextChunk ==
    /\ pc = "g_loop"
    /\ IF offset < duration
       THEN \E saved \in BOOLEAN :
              IF saved
              THEN /\ files' = files \cup {ChunkFile(CurrentChunk(offset))}
                   /\ segments' = Append(segments,
                        [ordinal |-> CurrentChunk(offset),
                         start |-> Slice(duration, offset, offset + chunk_duration).start,
                         end |-> Slice(duration, offset, offset + chunk_duration).end,
                         path |-> ChunkFile(CurrentChunk(offset))])
                   /\ attempt' = 0
                   /\ success' = FALSE
                   /\ pc' = "g_attempt"
                   /\ UNCHANGED <<result, fatal>>
              ELSE /\ Return("False", "exception")
                   /\ UNCHANGED <<files, segments, attempt, success>>
       ELSE /\ pc' = "g_assemble"
            /\ UNCHANGED <<files, segments, attempt, success, result, fatal>>
    /\ UNCHANGED <<model, waited, gui, names,
                   method, input_kind, input_format, formatted_text,
                   duration, prepared_audio, i,
                   audio_path, offset, total_chunks, pbar, full_text, text,
                   calls, firstOutcome, lastOutcome, segKind, segText>>

\* What one call of the recognition backend can end in.
Outcomes == {"Recognized", "NoSpeechDetected", "ServiceUnavailable", "Fatal"}

\* The retry loop without its handler for RequestError (221-225).
CaughtNoSpeechOnly == {"NoSpeechDetected"}

\* main.py:216-225  the outcomes the retry loop catches: UnknownValueError
\* and RequestError.
Caught == {"NoSpeechDetected", "ServiceUnavailable"}

\* The loop bound off by one: range(max_retries + 1).
MoreAttemptsOneMore(a) == a <= max_retries

\* main.py:208  for attempt in range(max_retries): another attempt follows.
MoreAttempts(a) == a < max_retries

\* main.py:220  time.sleep(5) after UnknownValueError
no_speech_wait_sec == 5

\* main.py:225  time.sleep(5) after RequestError
service_wait_sec == 5

\* main.py:216-225  the wait of the handler that caught the outcome.
Backoff(outcome) ==
    IF outcome = "NoSpeechDetected" THEN no_speech_wait_sec
                                    ELSE service_wait_sec

\* The handlers waiting after every caught failure, the last included.
WaitsAfterEveryFailure(a) == a < max_retries

\* main.py:219, 224  if attempt < max_retries - 1: the handler waits.
WaitsBeforeRetry(a) == a < max_retries - 1

\* main.py:208-225  one pass of the retry loop: one call of
\* recognize_google.  UnknownValueError and RequestError are caught and the
\* loop goes on; any other exception leaves audio_to_text through its
\* handler at 257-259.
GoogleAttempt ==
    /\ pc = "g_attempt"
    /\ MoreAttempts(attempt)
    /\ calls' = calls + 1
    /\ \E outcome \in Outcomes :
         /\ firstOutcome' = IF calls = 0 THEN outcome ELSE firstOutcome
         /\ lastOutcome' = outcome
         /\ IF outcome = "Recognized"
            THEN \E chunk_text \in Texts :
                   /\ full_text' = Append(full_text, chunk_text)
                   /\ segText' = Append(segText, chunk_text)
                   /\ segKind' = Append(segKind, "recognized")
                   /\ success' = TRUE
                   /\ pc' = "g_chunk_end"
                   /\ UNCHANGED <<attempt, result, fatal, waited>>
            ELSE IF outcome \in Caught
            THEN /\ waited' = IF WaitsBeforeRetry(attempt)
                                THEN Append(waited, Backoff(outcome))
                                ELSE waited
                 /\ attempt' = attempt + 1
                 /\ pc' = IF MoreAttempts(attempt + 1) THEN "g_attempt"
                                                     ELSE "g_chunk_end"
                 /\ UNCHANGED <<full_text, segText, segKind, success, result,
                                fatal>>
            ELSE /\ Return("False", "exception")
                 /\ UNCHANGED <<full_text, segText, segKind, success, attempt,
                                waited>>
    /\ UNCHANGED <<model, gui, names,
                   method, input_kind, input_format, formatted_text,
                   duration, prepared_audio, i, files,
                   audio_path, segments, offset, total_chunks, pbar, text>>

\* The offset moved on by half a chunk.
NextOffsetHalfChunk(off) == off + (chunk_duration \div 2)

\* main.py:231  offset += chunk_duration
NextOffset(off) == off + chunk_duration

\* main.py:227-233  the placeholder of a chunk that was not recognized, the
\* next offset, the progress update.
GoogleChunkEnd ==
    /\ pc = "g_chunk_end"
    /\ IF ~success
       THEN /\ full_text' = Append(full_text, Placeholder(CurrentChunk(offset)))
            /\ segText' = Append(segText, <<>>)
            /\ segKind' = Append(segKind, "exhausted")
       ELSE UNCHANGED <<full_text, segText, segKind>>
    /\ offset' = NextOffset(offset)
    /\ pbar' = pbar + 1
    /\ calls' = 0
    /\ waited' = <<>>
    /\ firstOutcome' = "none"
    /\ lastOutcome' = "none"
    /\ pc' = "g_loop"
    /\ UNCHANGED <<model, gui, names,
                   method, input_kind, input_format, formatted_text,
                   duration, prepared_audio, i, files,
                   audio_path, segments, total_chunks, attempt, success, text,
                   result, fatal>>

\* main.py:251  audio_path.endswith('_temp.wav')
EndsWithTempWav(path) ==
    \/ path = TempWav
    \/ path = InputFile /\ input_kind = "temp_wav"

\* main.py:235-255  join, format, write the text file, remove the temporary
\* WAV, return True.  What is written to the file is format_text(text); the
\* state holds which files exist, not what is in them.
GoogleFinish ==
    /\ pc = "g_assemble"
    /\ text' = Join(full_text, <<Space>>)
    /\ files' = (files \cup {GoogleTxt})
                  \ (IF EndsWithTempWav(audio_path) THEN {audio_path} ELSE {})
    /\ Return("True", "none")
    /\ UNCHANGED <<model, waited, gui, names,
                   method, input_kind, input_format, formatted_text,
                   duration, prepared_audio, i,
                   audio_path, segments, offset, total_chunks, pbar, attempt,
                   success, full_text, calls, firstOutcome, lastOutcome,
                   segKind, segText>>

\* ------------------------------------- transcribe_manager / vosk_transcriber

\* vosk_transcriber.py:102  output/<name>_vosk_ready.wav
VoskReady == File("vosk_ready", 0)

\* The segment file named with the loop index i instead of i+1.
VoskSegmentFileFromZero(n) == File("vosk_segment", n - 1)

\* vosk_transcriber.py:148  output/vosk_segments/<name>_segment_<i+1>.wav
VoskSegmentFile(n) == File("vosk_segment", n)

\* vosk_transcriber.py:350  output/<name>_vosk.txt
VoskTxt == File("vosk_txt", 0)

\* transcribe_manager.py:71  output/<name>_vosk_formatted.txt
VoskFormatted == File("vosk_formatted", 0)

\* vosk_transcriber.transcribe_with_vosk returns value to the manager.
VoskReturn(value, cause) ==
    /\ text' = value
    /\ fatal' = cause
    /\ pc' = "m_vosk_format"

\* transcribe_manager.py:63-64  load the vosk module.
ManagerVoskLoad ==
    /\ pc = "start"
    /\ method = "vosk"
    /\ \E loaded \in BOOLEAN :
         IF loaded
         THEN /\ pc' = "v_deps"
              /\ UNCHANGED <<result, fatal>>
         ELSE Return("False", "dependency")
    /\ UNCHANGED <<model, waited, gui, names,
                   method, input_kind, input_format, formatted_text,
                   duration, prepared_audio, i, files,
                   audio_path, segments, offset, total_chunks, pbar, attempt,
                   success, full_text, text, calls, firstOutcome, lastOutcome,
                   segKind, segText>>

\* vosk_transcriber.py:168-174  vosk installed and its model on disk.  When
\* only the model's zip is there the checks pass and Model() raises later.
VoskCheckDependencies ==
    /\ pc = "v_deps"
    /\ \E found \in BOOLEAN :
         IF found
         THEN /\ pc' = "v_prepare"
              /\ UNCHANGED <<text, fatal>>
         ELSE VoskReturn(ErrVoskDependencies, "dependency")
    /\ UNCHANGED <<model, waited, gui, names,
                   method, input_kind, input_format, formatted_text,
                   duration, prepared_audio, i, files,
                   audio_path, segments, offset, total_chunks, pbar, attempt,
                   success, full_text, result, calls, firstOutcome,
                   lastOutcome, segKind, segText>>

\* vosk_transcriber.py:181-183 and prepare_audio_for_vosk, 98-123.  An input
\* that cannot be decoded makes prepare_audio_for_vosk return None.
VoskPrepare ==
    /\ pc = "v_prepare"
    /\ \E prepared \in BOOLEAN :
         IF prepared
         THEN /\ files' = files \cup {VoskReady}
              /\ prepared_audio' = VoskReady
              /\ pc' = "v_model"
              /\ UNCHANGED <<text, fatal>>
         ELSE /\ VoskReturn(ErrPrepare, "prepare")
              /\ UNCHANGED <<files, prepared_audio>>
    /\ UNCHANGED <<model, waited, gui, names,
                   method, input_kind, input_format, formatted_text,
                   duration, i, audio_path, segments,
                   offset, total_chunks, pbar, attempt, success, full_text,
                   result, calls, firstOutcome, lastOutcome, segKind, segText>>

\* vosk_transcriber.py:189-193  Model(VOSK_MODEL_PATH); an exception goes to
\* the handler at 358-360.
VoskLoadModel ==
    /\ pc = "v_model"
    /\ \E loaded \in BOOLEAN :
         IF loaded
         THEN /\ model' = Loaded(model)
              /\ full_text' = <<>>
              /\ pc' = "v_split"
              /\ UNCHANGED <<text, fatal>>
         ELSE /\ VoskReturn(ErrRecognition, "dependency")
              /\ UNCHANGED <<full_text, model>>
    /\ UNCHANGED <<waited, gui, names,
                   method, input_kind, input_format, formatted_text,
                   duration, prepared_audio, i, files,
                   audio_path, segments, offset, total_chunks, pbar, attempt,
                   success, result, calls, firstOutcome, lastOutcome, segKind,
                   segText>>

\* vosk_transcriber.py:140  int(total_duration_sec / segment_length_sec) + 1
VoskTotalSegments(d) == (d \div (vosk_segment_length_sec * 1000)) + 1

\* split_audio_for_vosk without its test for a short audio (131-132): the
\* audio is always cut into segment files.
split_audio_for_vosk_always(path, d) ==
    [k \in 1..VoskTotalSegments(d) |->
       [ordinal |-> k,
        start |-> Slice(d, (k - 1) * vosk_segment_length_sec * 1000,
                        k * vosk_segment_length_sec * 1000).start,
        end |-> Slice(d, (k - 1) * vosk_segment_length_sec * 1000,
                      k * vosk_segment_length_sec * 1000).end,
        path |-> VoskSegmentFile(k)]]

\* vosk_transcriber.py:128-152  split_audio_for_vosk: the segments of an
\* audio of d ms read from path.
split_audio_for_vosk(path, d) ==
    IF d <= vosk_segment_length_sec * 1000
    THEN <<[ordinal |-> 1, start |-> 0, end |-> d, path |-> path]>>
    ELSE [k \in 1..VoskTotalSegments(d) |->
            [ordinal |-> k,
             start |-> Slice(d, (k - 1) * vosk_segment_length_sec * 1000,
                             k * vosk_segment_length_sec * 1000).start,
             end |-> Slice(d, (k - 1) * vosk_segment_length_sec * 1000,
                           k * vosk_segment_length_sec * 1000).end,
             path |-> VoskSegmentFile(k)]]

\* The files a list of segments names.
PathsOf(segs) == {segs[k].path : k \in 1..Len(segs)}

\* vosk_transcriber.py:196-199, 125-155  split the prepared audio.  When
\* split_audio_for_vosk raises (153-155), after exporting the first
\* exported of its segment files, it returns the audio itself.
VoskSplit ==
    /\ pc = "v_split"
    /\ LET segs == split_audio_for_vosk(prepared_audio, duration)
       IN \E exported \in 0..Len(segs) :
            IF exported = Len(segs) \/ Len(segs) = 1
            THEN /\ segments' = segs
                 /\ files' = files \cup PathsOf(segs)
                 /\ pc' = IF Len(segs) > 1 THEN "v_loop" ELSE "v_single"
            ELSE /\ segments' =
                      <<[ordinal |-> 1, start |-> 0, end |-> duration,
                         path |-> prepared_audio]>>
                 /\ files' = files \cup PathsOf(SubSeq(segs, 1, exported))
                 /\ pc' = "v_single"
    /\ i' = 0
    /\ UNCHANGED <<model, waited, gui, names,
                   method, input_kind, input_format, formatted_text,
                   duration, prepared_audio, audio_path,
                   offset, total_chunks, pbar, attempt, success, full_text,
                   text, result, calls, firstOutcome, lastOutcome, segKind,
                   segText, fatal>>

\* What the recognizer returns while the frames are read (Result(), after
\* AcceptWaveform says an utterance ended) and at the end (FinalResult()).
VoskPartials == {<<>>, <<<<"a">>>>}

VoskFinals == {<<>>, <<"b">>, <<"c">>}

\* vosk_transcriber.py:220-242  segment_text: every partial result followed
\* by a space, then the final result.
RECURSIVE VoskSegmentText(_, _)
VoskSegmentText(parts, final) ==
    IF parts = <<>> THEN final
    ELSE Head(parts) \o <<Space>> \o VoskSegmentText(Tail(parts), final)

\* The texts the recognizer can give for a segment: nothing is read from a
\* segment without frames.
VoskTextsOf(seg) ==
    IF seg.end = seg.start THEN {<<>>}
    ELSE {VoskSegmentText(parts, final) : parts \in VoskPartials, final \in VoskFinals}

\* vosk_transcriber.py:210  mono, 16 bit, uncompressed
WavFormats == {"mono_pcm16", "other"}

VoskFormatOk(format) == format = "mono_pcm16"

\* vosk_transcriber.py:202-251  one pass of the loop over the segments, and
\* the end of the loop.  A segment of the wrong format is passed over with
\* continue; an exception goes to the handler at 358-360.
VoskSegment ==
    /\ pc = "v_loop"
    /\ IF i < Len(segments)
       THEN \E format \in WavFormats :
              IF ~VoskFormatOk(format)
              THEN /\ i' = i + 1
                   /\ segKind' = Append(segKind, "skipped")
                   /\ segText' = Append(segText, <<>>)
                   /\ UNCHANGED <<full_text, text, fatal, pc>>
              ELSE \E raised \in BOOLEAN :
                     IF raised
                     THEN /\ VoskReturn(ErrRecognition, "exception")
                          /\ UNCHANGED <<full_text, i, segKind, segText>>
                     ELSE \E segment_text \in VoskTextsOf(segments[i + 1]) :
                            /\ full_text' = full_text \o segment_text \o <<Space>>
                            /\ i' = i + 1
                            /\ segKind' = Append(segKind, "recognized")
                            /\ segText' = Append(segText, segment_text)
                            /\ UNCHANGED <<text, fatal, pc>>
       ELSE /\ pc' = "v_finish"
            /\ UNCHANGED <<full_text, text, fatal, i, segKind, segText>>
    /\ UNCHANGED <<model, waited, gui, names,
                   method, input_kind, input_format, formatted_text,
                   duration, prepared_audio, files,
                   audio_path, segments, offset, total_chunks, pbar, attempt,
                   success, result, calls, firstOutcome, lastOutcome>>

\* vosk_transcriber.py:253-297  the audio is one segment: recognize the
\* prepared audio itself.
VoskSingle ==
    /\ pc = "v_single"
    /\ \E format \in WavFormats :
         IF ~VoskFormatOk(format)
         THEN /\ VoskReturn(ErrFormat, "format")
              /\ UNCHANGED <<full_text, segKind, segText>>
         ELSE \E raised \in BOOLEAN :
                IF raised
                THEN /\ VoskReturn(ErrRecognition, "exception")
                     /\ UNCHANGED <<full_text, segKind, segText>>
                ELSE \E segment_text \in VoskTextsOf(segments[1]) :
                       /\ full_text' = segment_text
                       /\ segKind' = Append(segKind, "recognized")
                       /\ segText' = Append(segText, segment_text)
                       /\ pc' = "v_finish"
                       /\ UNCHANGED <<text, fatal>>
    /\ UNCHANGED <<model, waited, gui, names,
                   method, input_kind, input_format, formatted_text,
                   duration, prepared_audio, i, files,
                   audio_path, segments, offset, total_chunks, pbar, attempt,
                   success, result, calls, firstOutcome, lastOutcome>>

\* vosk_transcriber.py:345-356  remove the prepared audio, write the text
\* file, return the text.
VoskFinish ==
    /\ pc = "v_finish"
    /\ files' = (files \ (IF prepared_audio # audio_path
                          THEN {prepared_audio} ELSE {})) \cup {VoskTxt}
    /\ VoskReturn(full_text, "none")
    /\ UNCHANGED <<model, waited, gui, names,
                   method, input_kind, input_format, formatted_text,
                   duration, prepared_audio, i,
                   audio_path, segments, offset, total_chunks, pbar, attempt,
                   success, full_text, result, calls, firstOutcome,
                   lastOutcome, segKind, segText>>

\* transcribe_manager.py:68-75  format what transcribe_with_vosk returned,
\* write it, return True.
ManagerVoskFinish ==
    /\ pc = "m_vosk_format"
    /\ files' = files \cup {VoskFormatted}
    /\ result' = "True"
    /\ pc' = "done"
    /\ UNCHANGED <<model, waited, gui, names,
                   method, input_kind, input_format, formatted_text,
                   duration, prepared_audio, i,
                   audio_path, segments, offset, total_chunks, pbar, attempt,
                   success, full_text, text, calls, firstOutcome, lastOutcome,
                   segKind, segText, fatal>>

Vosk ==
    \/ ManagerVoskLoad
    \/ VoskCheckDependencies
    \/ VoskPrepare
    \/ VoskLoadModel
    \/ VoskSplit
    \/ VoskSegment
    \/ VoskSingle
    \/ VoskFinish
    \/ ManagerVoskFinish

\* ---------------------------------- transcribe_manager / whisper_transcriber

\* whisper_transcriber.py:35  output/<name>_whisper_ready.wav
WhisperReady == File("whisper_ready", 0)

\* whisper_transcriber.py:81  output/whisper_segments/<name>_segment_<i+1>.wav
WhisperSegmentFile(n) == File("whisper_segment", n)

\* whisper_transcriber.py:189  output/<name>_whisper.txt
WhisperTxt == File("whisper_txt", 0)

\* transcribe_manager.py:89  output/<name>_whisper_formatted.txt
WhisperFormatted == File("whisper_formatted", 0)

\* whisper_transcriber.transcribe_with_whisper returns value to the manager.
WhisperReturn(value, cause) ==
    /\ text' = value
    /\ fatal' = cause
    /\ pc' = "m_whisper_format"

\* transcribe_manager.py:81-82  load the whisper module.
ManagerWhisperLoad ==
    /\ pc = "start"
    /\ method = "whisper"
    /\ \E loaded \in BOOLEAN :
         IF loaded
         THEN /\ pc' = "w_deps"
              /\ UNCHANGED <<result, fatal>>
         ELSE Return("False", "dependency")
    /\ UNCHANGED <<model, waited, gui, names,
                   method, input_kind, input_format, formatted_text,
                   duration, prepared_audio, i, files,
                   audio_path, segments, offset, total_chunks, pbar, attempt,
                   success, full_text, text, calls, firstOutcome, lastOutcome,
                   segKind, segText>>

\* whisper_transcriber.py:102-103  whisper installed.
WhisperCheckDependencies ==
    /\ pc = "w_deps"
    /\ \E found \in BOOLEAN :
         IF found
         THEN /\ pc' = "w_prepare"
              /\ UNCHANGED <<text, fatal>>
         ELSE WhisperReturn(ErrWhisperDependencies, "dependency")
    /\ UNCHANGED <<model, waited, gui, names,
                   method, input_kind, input_format, formatted_text,
                   duration, prepared_audio, i, files,
                   audio_path, segments, offset, total_chunks, pbar, attempt,
                   success, full_text, result, calls, firstOutcome,
                   lastOutcome, segKind, segText>>

\* whisper_transcriber.py:110-112 and prepare_audio_for_whisper, 31-56.  An
\* input that cannot be decoded makes prepare_audio_for_whisper return None.
WhisperPrepare ==
    /\ pc = "w_prepare"
    /\ \E prepared \in BOOLEAN :
         IF prepared
         THEN /\ files' = files \cup {WhisperReady}
              /\ prepared_audio' = WhisperReady
              /\ pc' = "w_model"
              /\ UNCHANGED <<text, fatal>>
         ELSE /\ WhisperReturn(ErrPrepare, "prepare")
              /\ UNCHANGED <<files, prepared_audio>>
    /\ UNCHANGED <<model, waited, gui, names,
                   method, input_kind, input_format, formatted_text,
                   duration, i, audio_path, segments,
                   offset, total_chunks, pbar, attempt, success, full_text,
                   result, calls, firstOutcome, lastOutcome, segKind, segText>>

\* whisper_transcriber.py:118-122  whisper.load_model; an exception goes to
\* the handler at 197-199.
WhisperLoadModel ==
    /\ pc = "w_model"
    /\ \E loaded \in BOOLEAN :
         IF loaded
         THEN /\ model' = Loaded(model)
              /\ full_text' = <<>>
              /\ pc' = "w_split"
              /\ UNCHANGED <<text, fatal>>
         ELSE /\ WhisperReturn(ErrRecognition, "dependency")
              /\ UNCHANGED <<full_text, model>>
    /\ UNCHANGED <<waited, gui, names,
                   method, input_kind, input_format, formatted_text,
                   duration, prepared_audio, i, files,
                   audio_path, segments, offset, total_chunks, pbar, attempt,
                   success, result, calls, firstOutcome, lastOutcome, segKind,
                   segText>>

\* whisper_transcriber.py:73  int(total_duration_sec / segment_length_sec) + 1
WhisperTotalSegments(d) == (d \div (whisper_segment_length_sec * 1000)) + 1

\* whisper_transcriber.py:61-85  split_audio_for_whisper: the segments of an
\* audio of d ms read from path.
split_audio_for_whisper(path, d) ==
    IF d <= whisper_segment_length_sec * 1000
    THEN <<[ordinal |-> 1, start |-> 0, end |-> d, path |-> path]>>
    ELSE [k \in 1..WhisperTotalSegments(d) |->
            [ordinal |-> k,
             start |-> Slice(d, (k - 1) * whisper_segment_length_sec * 1000,
                             k * whisper_segment_length_sec * 1000).start,
             end |-> Slice(d, (k - 1) * whisper_segment_length_sec * 1000,
                           k * whisper_segment_length_sec * 1000).end,
             path |-> WhisperSegmentFile(k)]]

\* whisper_transcriber.py:125-128, 58-88  split the prepared audio.  When
\* split_audio_for_whisper raises (86-88), after exporting the first
\* exported of its segment files, it returns the audio itself.
WhisperSplit ==
    /\ pc = "w_split"
    /\ LET segs == split_audio_for_whisper(prepared_audio, duration)
       IN \E exported \in 0..Len(segs) :
            IF exported = Len(segs) \/ Len(segs) = 1
            THEN /\ segments' = segs
                 /\ files' = files \cup PathsOf(segs)
                 /\ pc' = IF Len(segs) > 1 THEN "w_loop" ELSE "w_single"
            ELSE /\ segments' =
                      <<[ordinal |-> 1, start |-> 0, end |-> duration,
                         path |-> prepared_audio]>>
                 /\ files' = files \cup PathsOf(SubSeq(segs, 1, exported))
                 /\ pc' = "w_single"
    /\ i' = 0
    /\ UNCHANGED <<model, waited, gui, names,
                   method, input_kind, input_format, formatted_text,
                   duration, prepared_audio, audio_path,
                   offset, total_chunks, pbar, attempt, success, full_text,
                   text, result, calls, firstOutcome, lastOutcome, segKind,
                   segText, fatal>>

\* result["text"] of model.transcribe for a segment: nothing is recognized
\* in a segment without audio.
WhisperTextsOf(seg) ==
    IF seg.end = seg.start THEN {<<>>} ELSE Texts \cup {<<>>}

\* whisper_transcriber.py:131-152  one pass of the loop over the segments,
\* and the end of the loop.  An exception goes to the handler at 197-199.
WhisperSegment ==
    /\ pc = "w_loop"
    /\ IF i < Len(segments)
       THEN \E raised \in BOOLEAN :
              IF raised
              THEN /\ WhisperReturn(ErrRecognition, "exception")
                   /\ UNCHANGED <<full_text, i, segKind, segText>>
              ELSE \E segment_text \in WhisperTextsOf(segments[i + 1]) :
                     /\ full_text' = full_text \o segment_text \o <<Space>>
                     /\ i' = i + 1
                     /\ segKind' = Append(segKind, "recognized")
                     /\ segText' = Append(segText, segment_text)
                     /\ UNCHANGED <<text, fatal, pc>>
       ELSE /\ pc' = "w_finish"
            /\ UNCHANGED <<full_text, text, fatal, i, segKind, segText>>
    /\ UNCHANGED <<model, waited, gui, names,
                   method, input_kind, input_format, formatted_text,
                   duration, prepared_audio, files,
                   audio_path, segments, offset, total_chunks, pbar, attempt,
                   success, result, calls, firstOutcome, lastOutcome>>

\* whisper_transcriber.py:153-165  the audio is one segment: recognize the
\* prepared audio itself.
WhisperSingle ==
    /\ pc = "w_single"
    /\ \E raised \in BOOLEAN :
         IF raised
         THEN /\ WhisperReturn(ErrRecognition, "exception")
              /\ UNCHANGED <<full_text, segKind, segText>>
         ELSE \E segment_text \in WhisperTextsOf(segments[1]) :
                /\ full_text' = segment_text
                /\ segKind' = Append(segKind, "recognized")
                /\ segText' = Append(segText, segment_text)
                /\ pc' = "w_finish"
                /\ UNCHANGED <<text, fatal>>
    /\ UNCHANGED <<model, waited, gui, names,
                   method, input_kind, input_format, formatted_text,
                   duration, prepared_audio, i, files,
                   audio_path, segments, offset, total_chunks, pbar, attempt,
                   success, result, calls, firstOutcome, lastOutcome>>

\* whisper_transcriber.py:180-195  release the model, remove the prepared
\* audio, write the text file, return the text.
WhisperFinish ==
    /\ pc = "w_finish"
    /\ files' = (files \ (IF prepared_audio # audio_path
                          THEN {prepared_audio} ELSE {})) \cup {WhisperTxt}
    /\ WhisperReturn(full_text, "none")
    /\ model' = Released(model)
    /\ UNCHANGED <<waited, gui, names,
                   method, input_kind, input_format, formatted_text,
                   duration, prepared_audio, i,
                   audio_path, segments, offset, total_chunks, pbar, attempt,
                   success, full_text, result, calls, firstOutcome,
                   lastOutcome, segKind, segText>>

\* transcribe_manager.py:86-93  format what transcribe_with_whisper
\* returned, write it, return True.
ManagerWhisperFinish ==
    /\ pc = "m_whisper_format"
    /\ files' = files \cup {WhisperFormatted}
    /\ result' = "True"
    /\ pc' = "done"
    /\ UNCHANGED <<model, waited, gui, names,
                   method, input_kind, input_format, formatted_text,
                   duration, prepared_audio, i,
                   audio_path, segments, offset, total_chunks, pbar, attempt,
                   success, full_text, text, calls, firstOutcome, lastOutcome,
                   segKind, segText, fatal>>

Whisper ==
    \/ ManagerWhisperLoad
    \/ WhisperCheckDependencies
    \/ WhisperPrepare
    \/ WhisperLoadModel
    \/ WhisperSplit
    \/ WhisperSegment
    \/ WhisperSingle
    \/ WhisperFinish
    \/ ManagerWhisperFinish

Google ==
    \/ GoogleConvert
    \/ GoogleLoad
    \/ GoogleNextChunk
    \/ GoogleAttempt
    \/ GoogleChunkEnd
    \/ GoogleFinish

Next == Google \/ Vosk \/ Whisper

Spec == Init /\ [][Next]_vars

\* ------------------------------------------------------ a formatter alone

\* A word of n letters.
RECURSIVE Word(_)
Word(n) ==
    IF n = 0 THEN ""
    ELSE IF n % 2 = 0 THEN Word(n \div 2) \o Word(n \div 2)
    ELSE "x" \o Word(n - 1)

\* The lengths of the words tried: a short word, two words that fill a
\* line of 80 together, a word longer than every line.
WordLengths == {1, 39, 40, 121}

\* The patterns of lengths.
Patterns == UNION {[1..k -> WordLengths] : k \in 1..MaxPattern}

\* n words whose lengths repeat pattern.
WordsOf(pattern, n) ==
    [k \in 1..n |-> Word(pattern[((k - 1) % Len(pattern)) + 1])]

\* The whitespace around the words: what comes before the first word,
\* between two words, after the last word.
Spacings ==
    {[lead |-> <<>>, sep |-> <<Space>>, trail |-> <<>>],
     [lead |-> <<>>, sep |-> <<Space, Space>>, trail |-> <<Space>>],
     [lead |-> <<NewLine>>, sep |-> <<"\t", NewLine>>, trail |-> <<>>]}

\* The text of the words with the whitespace of spacing.
Spread(words, spacing) ==
    spacing.lead \o JoinWords(words, spacing.sep) \o spacing.trail

\* The texts a formatter is tried on.
FormatterTexts ==
    {Spread(WordsOf(pattern, n), spacing) :
       pattern \in Patterns, n \in 0..MaxWords, spacing \in Spacings}

\* A formatter is called on a text; nothing of a run is there.
FormatterInit ==
    /\ method \in Methods
    /\ text \in FormatterTexts
    /\ pc = "format"
    /\ formatted_text = <<>>
    /\ input_kind = "other"
    /\ input_format = Canonical
    /\ duration = 0
    /\ files = {}
    /\ audio_path = File("none", 0)
    /\ segments = <<>>
    /\ offset = 0
    /\ total_chunks = 0
    /\ pbar = 0
    /\ attempt = 0
    /\ success = FALSE
    /\ prepared_audio = File("none", 0)
    /\ i = 0
    /\ full_text = <<>>
    /\ result = "none"
    /\ calls = 0
    /\ firstOutcome = "none"
    /\ lastOutcome = "none"
    /\ segKind = <<>>
    /\ segText = <<>>
    /\ fatal = "none"
    /\ model = NoModel
    /\ waited = <<>>
    /\ gui = <<>>
    /\ names = <<>>

\* The formatter returns value.
Formatted(value) ==
    /\ formatted_text' = value
    /\ pc' = "formatted"
    /\ UNCHANGED <<model, waited, gui, names,
                   method, input_kind, input_format, duration, files,
                   audio_path, segments, offset, total_chunks, pbar, attempt,
                   success, prepared_audio, i, full_text, text, result, calls,
                   firstOutcome, lastOutcome, segKind, segText, fatal>>

\* main.format_text(text)
FormatText ==
    /\ pc = "format"
    /\ method = "google"
    /\ Formatted(format_text(text))

\* vosk_transcriber.format_vosk_result(text)
FormatVoskResult ==
    /\ pc = "format"
    /\ method = "vosk"
    /\ Formatted(format_vosk_result(text))

\* whisper_transcriber.format_whisper_result(text)
FormatWhisperResult ==
    /\ pc = "format"
    /\ method = "whisper"
    /\ Formatted(format_whisper_result(text))

FormatterNext == FormatText \/ FormatVoskResult \/ FormatWhisperResult

FormatterSpec == FormatterInit /\ [][FormatterNext]_vars

\* ------------------------------------------------------------ segmentation

\* The segment length of the run's backend, ms.
L == SegmentLengthMs(method)

\* The segmenter of the run has finished and did not raise: the chunk loop
\* of main.audio_to_text has ended, or split_audio_for_vosk /
\* split_audio_for_whisper has returned its list.
SplitDone ==
    \/ method = "google" /\ pc = "g_assemble"
    \/ pc \in {"v_loop", "w_loop"}
    \/ pc \in {"v_single", "w_single"} /\ duration <= L

\* The file the segmenter reads.
Source == IF method = "google" THEN audio_path ELSE prepared_audio

\* The segment files that exist.
SegmentFiles ==
    {f \in files : f.kind \in {"chunk", "vosk_segment", "whisper_segment"}}

SegLength(seg) == seg.end - seg.start

\* C1: every segmenter produces exactly ceil(d/L) segments, one segment
\* when d <= L, also when d is an exact multiple of L.
C1_SegmentCount ==
    SplitDone =>
        /\ Len(segments) = Ceil(duration, L)
        /\ duration <= L => Len(segments) = 1

\* C2: the segments tile [0, d): the first starts at 0, each starts where
\* the one before ends, the last ends at d, all but the last have length L,
\* the last has length d mod L (L when that is zero), none is empty.
C2_SegmentsTile ==
    SplitDone =>
        /\ segments[1].start = 0
        /\ \A k \in 1..(Len(segments) - 1) :
             /\ segments[k + 1].start = segments[k].end
             /\ SegLength(segments[k]) = L
        /\ segments[Len(segments)].end = duration
        /\ SegLength(segments[Len(segments)]) =
             (IF duration % L = 0 THEN L ELSE duration % L)
        /\ \A k \in 1..Len(segments) : SegLength(segments[k]) > 0

\* C3, as claimed: when d <= L every backend, main.audio_to_text included,
\* takes the source file itself as the single segment and writes no
\* segment file.
C3_PassThroughAllBackends ==
    (duration <= L /\ segments # <<>>) =>
        /\ Len(segments) = 1
        /\ segments[1].path = Source
        /\ SegmentFiles = {}

\* C3, amended: when d <= L split_audio_for_vosk and split_audio_for_whisper
\* return the source file itself as the single segment and write no segment
\* file; main.audio_to_text writes its single chunk to a chunk file and
\* recognizes that file.
C3_PassThroughLocalBackends ==
    (duration <= L /\ segments # <<>>) =>
        /\ Len(segments) = 1
        /\ method \in {"vosk", "whisper"} =>
             /\ segments[1].path = Source
             /\ SegmentFiles = {}
        /\ method = "google" =>
             /\ segments[1].path = ChunkFile(1)
             /\ SegmentFiles = {ChunkFile(1)}

\* A short audio has been through split_audio_for_vosk.
C3_Witness ==
    /\ method = "vosk"
    /\ duration <= L
    /\ pc = "v_single"
    /\ segments # <<>>

\* ------------------------------------------------------------- retry loop

\* A step makes no call of the backend for a segment whose latest call was
\* Recognized or raised a Fatal error.
NoCallAfterEnd ==
    lastOutcome \in {"Recognized", "Fatal"} => calls' <= calls

\* C4: for each segment the retry loop calls the backend at most
\* max_retries = 5 times when the attempts end in NoSpeechDetected or
\* ServiceUnavailable, exactly once when the first attempt is Recognized,
\* exactly once when the first attempt raises another (Fatal) error, and
\* makes no further call for the segment after a Recognized outcome.
C4_RetryBound ==
    /\ [](method = "google" =>
            /\ calls <= max_retries
            /\ firstOutcome \in {"Recognized", "Fatal"} => calls = 1
            /\ (pc = "g_chunk_end" /\ ~success) => calls = max_retries)
    /\ [][NoCallAfterEnd]_vars

\* A segment has used all its attempts without being recognized.
C4_Witness ==
    /\ pc = "g_chunk_end"
    /\ ~success
    /\ calls = max_retries
    /\ lastOutcome \in Caught

\* The number of chunks main.audio_to_text has finished with.
ChunksDone == offset \div chunk_duration

\* C5: a segment whose attempts all fail contributes exactly one entry to
\* the accumulated text, the placeholder with its own 1-based ordinal, and
\* the entry of every other segment is the text recognized for that
\* segment: entry k depends on segment k alone.
C5_PlaceholderOwnOrdinal ==
    (method = "google" /\ pc \in {"g_loop", "g_assemble"}) =>
        /\ Len(full_text) = ChunksDone
        /\ Len(segKind) = ChunksDone
        /\ \A k \in 1..Len(full_text) :
             full_text[k] =
               IF segKind[k] = "exhausted"
               THEN PlaceholderPrefix \o Str(k) \o <<"]">>
               ELSE segText[k]

\* The second of three chunks used all its attempts, its neighbours were
\* recognized.
C5_Witness ==
    /\ method = "google"
    /\ pc = "g_assemble"
    /\ segKind = <<"recognized", "exhausted", "recognized">>

\* The run goes on until it returns: one thread runs it, and every wait in
\* it (the backoff, the backend's answer) ends.
LiveSpec == Spec /\ WF_vars(Next)

\* No call of the backend, no conversion, load or save ended the run.
NothingFatal == fatal = "none"

\* C6: Recognized, NoSpeechDetected and ServiceUnavailable outcomes never
\* abort the run of main.audio_to_text: no run ends on such an outcome,
\* and a run that meets nothing else works through every chunk, writes the
\* text file and returns True; every run returns.
C6_TransientNeverAborts ==
    /\ []((method = "google" /\ result = "False") =>
            lastOutcome \notin {"Recognized", "NoSpeechDetected",
                                "ServiceUnavailable"})
    /\ []((method = "google" /\ pc = "done" /\ NothingFatal) =>
            /\ result = "True"
            /\ GoogleTxt \in files
            /\ Len(full_text) = Ceil(duration, chunk_duration))
    /\ (method = "google" => <>(pc = "done"))

\* A run in which one chunk was recognized and another used all its
\* attempts has returned True.
C6_Witness ==
    /\ method = "google"
    /\ pc = "done"
    /\ result = "True"
    /\ \E j, k \in 1..Len(segKind) :
         segKind[j] = "exhausted" /\ segKind[k] = "recognized"

\* ----------------------------------------------------------------- assembly

\* The run has assembled its transcript and no fatal condition ended it.
Completed ==
    /\ NothingFatal
    /\ \/ method = "google" /\ pc = "done" /\ result = "True"
       \/ method \in {"vosk", "whisper"} /\ pc \in {"m_vosk_format",
                                                   "m_whisper_format", "done"}

\* C7: in every run that completes each segment ordinal 1..N contributes
\* exactly one entry, recognized text or placeholder, in ascending order;
\* no segment is passed over, a Vosk segment of the wrong format included.
C7_EveryOrdinalOnce ==
    Completed =>
        /\ Len(segKind) = Len(segments)
        /\ \A k \in 1..Len(segKind) : segKind[k] \in {"recognized", "exhausted"}

\* The entry of segment k in the transcript.
Entry(k) ==
    IF segKind[k] = "exhausted" THEN Placeholder(k) ELSE segText[k]

\* C8: the assembled pre-formatting text is the per-segment texts in
\* ordinal order joined by exactly one space, with no leading or trailing
\* separator, on the Google, Vosk and Whisper paths alike.
C8_JoinedBySingleSpace ==
    (/\ Completed
     /\ \A k \in 1..Len(segKind) : segKind[k] # "skipped" /\ Entry(k) # <<>>)
    => text = Join([k \in 1..Len(segKind) |-> Entry(k)], <<Space>>)

\* A WAV format check of the Vosk path has failed.
FormatMismatch ==
    \/ fatal = "format"
    \/ \E k \in 1..Len(segKind) : segKind[k] = "skipped"

\* C9: a segment whose format fails the Vosk check is fatal: the run
\* stops at once as a run-level failure and no later segment is
\* recognized, in the single-segment and in the multi-segment path.
C9_FormatMismatchFatal ==
    FormatMismatch =>
        /\ pc \in {"m_vosk_format", "done"}
        /\ pc = "done" => result = "False"
        /\ \A j, k \in 1..Len(segKind) :
             (j < k /\ segKind[j] = "skipped") => segKind[k] # "recognized"

\* The final transcript files of the backends.
TranscriptFiles ==
    {GoogleTxt, VoskTxt, VoskFormatted, WhisperTxt, WhisperFormatted}

\* C10: after a run that ended in a fatal abort no final transcript file
\* of the run has been written.
C10_NoTranscriptAfterAbort ==
    (pc = "done" /\ ~NothingFatal) => files \cap TranscriptFiles = {}

\* ------------------------------------------------------- failure and cleanup

\* The input could not be decoded: convert_audio_to_wav,
\* prepare_audio_for_vosk or prepare_audio_for_whisper returned None, or
\* AudioSegment.from_wav raised.
Undecodable == fatal \in {"prepare", "unreadable"}

\* C11: when the input file cannot be decoded the run aborts before any
\* segment is created or any recognition call is made, and no output file
\* is written, on the Google, Vosk and Whisper paths alike.
C11_UndecodableNoOutput ==
    Undecodable =>
        /\ segments = <<>>
        /\ SegmentFiles = {}
        /\ calls = 0
        /\ segKind = <<>>
        /\ files \cap TranscriptFiles = {}

\* The files a run creates for its own use: the canonical WAV and the
\* segment files.
Intermediate(f) ==
    f.kind \in {"temp_wav", "vosk_ready", "whisper_ready", "chunk",
                "vosk_segment", "whisper_segment"}

\* The canonical WAV of the run has been created.
CanonicalCreated ==
    \/ audio_path = TempWav
    \/ prepared_audio \in {VoskReady, WhisperReady}

\* C12: when a run ends, by success or by a failure after the canonical
\* WAV was created, the canonical WAV and the segment files created for
\* the run have been deleted.
C12_IntermediatesDeleted ==
    (pc = "done" /\ CanonicalCreated) => \A f \in files : ~Intermediate(f)

\* C13: a run never deletes the file the caller supplied, whatever its
\* name, a caller's WAV whose name ends in _temp.wav included.
C13_CallerFileKept == InputFile \in files

\* ------------------------------------------------------ formatter's output

\* The formatter has returned.
FormatterDone == pc = "formatted"

\* The width and the line cap of the backend's formatter.
MaxLineLength(m) ==
    CASE m = "google" -> main_max_line_length
      [] m = "vosk" -> vosk_max_line_length
      [] m = "whisper" -> whisper_max_line_length

LineCap(m) ==
    CASE m = "google" -> main_paragraph_lines
      [] m = "vosk" -> vosk_paragraph_lines
      [] m = "whisper" -> whisper_paragraph_lines

HeaderOf(m) ==
    CASE m = "google" -> MainHeader
      [] m = "vosk" -> VoskHeader
      [] m = "whisper" -> WhisperHeader

\* The words that open the statistics.
StatsWords == {"Koli4estvo", "Statistika:"}

\* The elements of out before the statistics.
RECURSIVE BeforeStats(_)
BeforeStats(out) ==
    IF out = <<>> \/ Head(out) \in StatsWords THEN <<>>
    ELSE <<Head(out)>> \o BeforeStats(Tail(out))

\* t without the newlines it ends in.
RECURSIVE StripNewLines(_)
StripNewLines(t) ==
    IF t # <<>> /\ t[Len(t)] = NewLine
    THEN StripNewLines(SubSeq(t, 1, Len(t) - 1))
    ELSE t

\* The re-flowed body of an output: what stands between the header and the
\* statistics.  The Vosk and Whisper statistics open with two newlines.
BodyOf(m, out) ==
    LET rest == SubSeq(out, Len(HeaderOf(m)) + 1, Len(out))
    IN IF m = "google" THEN BeforeStats(rest)
       ELSE StripNewLines(BeforeStats(rest))

\* The paragraphs of a body: the parts an empty line stands between.
RECURSIVE ParagraphsFrom(_, _)
ParagraphsFrom(b, cur) ==
    IF b = <<>> THEN <<cur>>
    ELSE IF Len(b) >= 2 /\ b[1] = NewLine /\ b[2] = NewLine
    THEN <<cur>> \o ParagraphsFrom(SubSeq(b, 3, Len(b)), <<>>)
    ELSE ParagraphsFrom(Tail(b), Append(cur, Head(b)))

ParagraphsIn(b) == IF b = <<>> THEN <<>> ELSE ParagraphsFrom(b, <<>>)

\* The lines of a paragraph.
RECURSIVE LinesFrom(_, _)
LinesFrom(p, cur) ==
    IF p = <<>> THEN <<cur>>
    ELSE IF Head(p) = NewLine THEN <<cur>> \o LinesFrom(Tail(p), <<>>)
    ELSE LinesFrom(Tail(p), Append(cur, Head(p)))

LinesIn(p) == LinesFrom(p, <<>>)

\* The body, the paragraphs and the lines of the output in formatted_text.
Body == BodyOf(method, formatted_text)

OutParagraphs == ParagraphsIn(Body)

RECURSIVE AllLines(_)
AllLines(ps) ==
    IF ps = <<>> THEN <<>> ELSE LinesIn(Head(ps)) \o AllLines(Tail(ps))

OutLines == AllLines(OutParagraphs)

\* No word of the input is split, lost or moved: the words of the body are
\* the words of the input, in order.
WordsKept == Split(Body) = Split(text)

\* C14, as claimed: no line of the re-flowed body is longer than the
\* formatter's width (120 in format_text, 80 in format_vosk_result and
\* format_whisper_result), and no word of the input is split across lines.
C14_WidthAndWholeWords ==
    FormatterDone =>
        /\ \A k \in 1..Len(OutLines) :
             TextLen(OutLines[k]) <= MaxLineLength(method)
        /\ WordsKept

\* C14, amended: no line of two or more words is longer than the
\* formatter's width; a word longer than the width stands alone on a line
\* of its own length; no word of the input is split across lines.
C14_WidthUnlessOneLongWord ==
    FormatterDone =>
        /\ \A k \in 1..Len(OutLines) :
             \/ TextLen(OutLines[k]) <= MaxLineLength(method)
             \/ Len(OutLines[k]) = 1
        /\ WordsKept

\* An output with a line of two words that is exactly as long as the width
\* and a line that is one word longer than the width.
C14_Witness ==
    /\ FormatterDone
    /\ \E k \in 1..Len(OutLines) :
         /\ Len(Split(OutLines[k])) >= 2
         /\ TextLen(OutLines[k]) = MaxLineLength(method)
    /\ \E k \in 1..Len(OutLines) :
         TextLen(OutLines[k]) > MaxLineLength(method)

\* C15: every paragraph of the output but the last has exactly the line
\* cap (5 lines in format_text, 4 in the Vosk and Whisper formatters), the
\* last has between 1 and cap lines, and no paragraph is empty.
C15_ParagraphLineCap ==
    FormatterDone =>
        \A k \in 1..Len(OutParagraphs) :
            /\ OutParagraphs[k] # <<>>
            /\ \A j \in 1..Len(LinesIn(OutParagraphs[k])) :
                 LinesIn(OutParagraphs[k])[j] # <<>>
            /\ Len(LinesIn(OutParagraphs[k])) >= 1
            /\ Len(LinesIn(OutParagraphs[k])) <= LineCap(method)
            /\ k < Len(OutParagraphs) =>
                 Len(LinesIn(OutParagraphs[k])) = LineCap(method)

\* An output of three paragraphs, the last one shorter than the cap.
C15_Witness ==
    /\ FormatterDone
    /\ Len(OutParagraphs) = 3
    /\ Len(LinesIn(OutParagraphs[3])) < LineCap(method)

\* The statistics of out report n under the label what: the label, a
\* space, the digits of n, the end of the line.
Reports(out, what, n) ==
    \E k \in 1..Len(out) :
        /\ out[k] = what
        /\ k + 2 + Len(Str(n)) <= Len(out)
        /\ out[k + 1] = Space
        /\ SubSeq(out, k + 2, k + 1 + Len(Str(n))) = Str(n)
        /\ out[k + 2 + Len(Str(n))] = NewLine

\* The names of the backend a header can carry.
BackendNames(m) ==
    CASE m = "google" -> {"(GOOGLE)", "GOOGLE", "Google"}
      [] m = "vosk" -> {"(VOSK)", "VOSK", "Vosk"}
      [] m = "whisper" -> {"(WHISPER)", "WHISPER", "Whisper"}

\* The first line of out.
RECURSIVE FirstLine(_)
FirstLine(out) ==
    IF out = <<>> \/ Head(out) = NewLine THEN <<>>
    ELSE <<Head(out)>> \o FirstLine(Tail(out))

HeaderNamesBackend(m, out) ==
    \E k \in 1..Len(FirstLine(out)) : FirstLine(out)[k] \in BackendNames(m)

\* The number of paragraphs of a text: 1 unless it is empty.
ParagraphsOfText(t) == IF t = <<>> THEN 0 ELSE 1

\* The number of lines of a text.
LinesOfText(t) == IF t = <<>> THEN 0 ELSE LineCount(t)

Formatter(m, t) ==
    CASE m = "google" -> format_text(t)
      [] m = "vosk" -> format_vosk_result(t)
      [] m = "whisper" -> format_whisper_result(t)

SegmentKinds == {"chunk", "vosk_segment", "whisper_segment"}

\* C18: the ordinals of the segments of a run are 1, 2, ..., N without gap
\* or repeat in the order the segments are processed, and the ordinal in
\* the name of each segment file and in each placeholder is the ordinal of
\* its segment.
C18_OrdinalsContiguous ==
    /\ \A k \in 1..Len(segments) :
         /\ segments[k].ordinal = k
         /\ segments[k].path.kind \in SegmentKinds => segments[k].path.n = k
    /\ \A f \in SegmentFiles : f.n >= 1
    /\ pc \in {"v_loop", "w_loop"} => (Len(segKind) = i /\ i <= Len(segments))
    /\ method = "google" =>
         /\ Len(segKind) = Len(full_text)
         /\ Len(segKind) <= Len(segments)
         /\ \A k \in 1..Len(segKind) :
              segKind[k] = "exhausted" =>
                  full_text[k] = PlaceholderPrefix \o Str(k) \o <<"]">>

\* The Vosk loop has been through all the segment files of a long audio.
C18_Witness ==
    /\ method = "vosk"
    /\ pc = "v_loop"
    /\ Len(segments) >= 3
    /\ i = Len(segments)
    /\ \A k \in 1..Len(segments) : segments[k].path \in SegmentFiles

\* The chunk loop of main.audio_to_text has ended.
ChunkLoopEnded ==
    \/ pc = "g_assemble"
    \/ pc = "done" /\ result = "True"

\* C19: main.audio_to_text reports progress once for each chunk it has
\* finished, as (ordinal, total) with 1 <= ordinal <= total; the total
\* announced at the start is the number of chunks processed, and the last
\* report of a run that completes has ordinal = total, for every duration,
\* the exact multiples of 30 seconds included.
C19_ProgressMatchesTotal ==
    method = "google" =>
        /\ pbar = ChunksDone
        /\ pc \in {"g_attempt", "g_chunk_end"} =>
             (1 <= CurrentChunk(offset) /\ CurrentChunk(offset) <= total_chunks)
        /\ pbar <= total_chunks
        /\ ChunkLoopEnded =>
             (pbar = total_chunks /\ Len(segments) = total_chunks)

\* ------------------------------------------------------------ audio format

\* The format of the audio in a file the run reads or has written.  The
\* conversions (main.py:78-86, vosk_transcriber.py:109-116,
\* whisper_transcriber.py:43-51) write mono 16 kHz PCM; a slice exported
\* with export(format="wav") keeps the format of the audio it was cut from.
FormatOf(f) ==
    CASE f = InputFile -> input_format
      [] f.kind \in {"temp_wav", "vosk_ready", "whisper_ready"} -> Canonical
      [] f.kind \in {"vosk_segment", "whisper_segment"} -> Canonical
      [] f.kind = "chunk" ->
           (IF audio_path = InputFile THEN input_format ELSE Canonical)
      [] OTHER -> "none"

\* A segment has been handed to the recognition backend.
HandedToBackend == calls > 0 \/ segKind # <<>>

\* C20: every audio segment handed to a recognition backend is mono, at
\* 16 kHz and linear PCM, whatever the format of the caller's file, a
\* caller's .wav file on the Google path included.
C20_CanonicalAudioToBackend ==
    HandedToBackend =>
        \A k \in 1..Len(segments) : FormatOf(segments[k].path) = Canonical


\* ------------------------------------------------------------------- C21

\* The function of the local backend has ended: the manager, or nobody, has
\* the run.
BackendEnded == pc \in {"m_vosk_format", "m_whisper_format", "done"}

\* C21: a Vosk or Whisper run loads its recognition model exactly once,
\* before its first segment and never again for a later segment, and on
\* every path on which the run ends after the load (normally, with an early
\* error return, with an exception) it has released the model explicitly.
C21_ModelOnceAndReleased ==
    method \in {"vosk", "whisper"} =>
        /\ model.loads <= 1
        /\ (segKind # <<>> => model.loads = 1)
        /\ (BackendEnded /\ model.loads = 1 => model.released)

\* ------------------------------------------------------------------- C22

\* The run is under way.
Running == pc \notin {"start", "done", "cancelled", "format", "formatted"}

\* The user stops a run that is under way.  The loops (main.py:191-233,
\* vosk_transcriber.py:202-251, whisper_transcriber.py:131-152) read no
\* flag, and the window has no control for it (the worker is started as a
\* daemon thread and every button is disabled, transcribe_manager.py:
\* 276-283), so the only request there is cuts the run short where it
\* stands: KeyboardInterrupt is not an Exception, the handlers (main.py:
\* 257-259, vosk_transcriber.py:358-360, whisper_transcriber.py:197-199)
\* do not catch it and there is no finally block; closing the window ends
\* the process and with it the daemon thread.
Interrupt ==
    /\ Running
    /\ pc' = "cancelled"
    /\ UNCHANGED <<model, waited, gui, names,
                   method, input_kind, input_format, formatted_text,
                   duration, files, audio_path, segments, offset,
                   total_chunks, pbar, attempt, success, prepared_audio, i,
                   full_text, text, result, calls, firstOutcome, lastOutcome,
                   segKind, segText, fatal>>

CancelNext == Next \/ Interrupt

CancelSpec == Init /\ [][CancelNext]_vars

\* C22: a run can be cancelled cooperatively: once cancellation has been
\* requested the run starts no further segment, and cleanup still runs, so
\* that no intermediate file of the run is left.
C22_CancelledRunCleansUp ==
    pc = "cancelled" => \A f \in files : ~Intermediate(f)

\* ------------------------------------------------------------------- C23

\* No run: the variables of a run, for the specifications that have none.
NoRun ==
    /\ method = "google"
    /\ input_kind = "other"
    /\ input_format = Canonical
    /\ duration = 0
    /\ files = {}
    /\ audio_path = File("none", 0)
    /\ segments = <<>>
    /\ offset = 0
    /\ total_chunks = 0
    /\ pbar = 0
    /\ attempt = 0
    /\ success = FALSE
    /\ prepared_audio = File("none", 0)
    /\ i = 0
    /\ full_text = <<>>
    /\ text = <<>>
    /\ formatted_text = <<>>
    /\ result = "none"
    /\ calls = 0
    /\ firstOutcome = "none"
    /\ lastOutcome = "none"
    /\ segKind = <<>>
    /\ segText = <<>>
    /\ fatal = "none"
    /\ model = NoModel
    /\ waited = <<>>

\* The largest ordinal of a segment in the runs set side by side.
MaxOrdinal == 2

\* A path is the directory, the name without extension, the extension.
Path(dir, name, ext) == [dir |-> dir, name |-> name, ext |-> ext]

\* The files a caller may supply: two directories, two names, two
\* extensions.
Sources ==
    {Path(dir, name, ext) :
        dir \in {"/a/", "/b/"}, name \in {"talk", "news"},
        ext \in {".mp3", ".wav"}}

\* os.path.basename(path)
basename(path) == [path EXCEPT !.dir = ""]

\* os.path.splitext(path)[0]
splitext0(path) == path.dir \o path.name

\* main.py:69-70  output/<name>_temp.wav
convert_audio_to_wav_path(path) ==
    Path("output/", splitext0(basename(path)) \o "_temp", ".wav")

\* vosk_transcriber.py:101-102  output/<name>_vosk_ready.wav
prepare_audio_for_vosk_path(path) ==
    Path("output/", splitext0(basename(path)) \o "_vosk_ready", ".wav")

\* whisper_transcriber.py:34-35  output/<name>_whisper_ready.wav
prepare_audio_for_whisper_path(path) ==
    Path("output/", splitext0(basename(path)) \o "_whisper_ready", ".wav")

\* main.py:151-152, 198-199  output/chunks/<name>_chunk_<n>.wav, the name
\* taken from the base name of the audio the chunks are cut from.
save_audio_chunk_path(chunk_number, original_filename) ==
    Path("output/chunks/",
         splitext0(original_filename) \o "_chunk_" \o ToString(chunk_number),
         ".wav")

\* vosk_transcriber.py:136-148  output/vosk_segments/<name>_segment_<n>.wav
vosk_segment_path(path, n) ==
    Path("output/vosk_segments/",
         splitext0(basename(path)) \o "_segment_" \o ToString(n), ".wav")

\* whisper_transcriber.py:69-81
\* output/whisper_segments/<name>_segment_<n>.wav
whisper_segment_path(path, n) ==
    Path("output/whisper_segments/",
         splitext0(basename(path)) \o "_segment_" \o ToString(n), ".wav")

\* A run to be set beside another: its source file, its backend and the
\* ordinal of the segment it writes.
NamedRuns == [source : Sources, backend : Methods, ordinal : 1..MaxOrdinal]

NameInit ==
    /\ NoRun
    /\ pc = "names"
    /\ gui = <<>>
    /\ \E first \in NamedRuns, second \in NamedRuns :
         names = [run |-> <<first, second>>,
                  step |-> <<"start", "start">>,
                  audio |-> <<first.source, second.source>>,
                  written |-> <<{}, {}>>]

NameStep(value) ==
    /\ names' = value
    /\ UNCHANGED <<model, waited, gui,
                   method, input_kind, input_format, formatted_text,
                   duration, pc, files, audio_path, segments, offset,
                   total_chunks, pbar, attempt, success, prepared_audio, i,
                   full_text, text, result, calls, firstOutcome, lastOutcome,
                   segKind, segText, fatal>>

\* The canonical WAV of a run on the source: main.py:164-167 (none when the
\* name ends in .wav), vosk_transcriber.py:181, whisper_transcriber.py:110.
CanonicalPath(backend, source) ==
    CASE backend = "google" -> convert_audio_to_wav_path(source)
      [] backend = "vosk" -> prepare_audio_for_vosk_path(source)
      [] backend = "whisper" -> prepare_audio_for_whisper_path(source)

\* The file of segment n cut from the audio at path: main.py:198-199,
\* vosk_transcriber.py:148, whisper_transcriber.py:81.
SegmentPath(backend, path, n) ==
    CASE backend = "google" -> save_audio_chunk_path(n, basename(path))
      [] backend = "vosk" -> vosk_segment_path(path, n)
      [] backend = "whisper" -> whisper_segment_path(path, n)

\* Run k writes its canonical WAV and goes on with it; the Google path
\* goes on with a caller's .wav as it is.
NamePrepare(k) ==
    /\ pc = "names"
    /\ names.step[k] = "start"
    /\ LET run == names.run[k]
           canonical == CanonicalPath(run.backend, run.source)
       IN IF run.backend = "google" /\ run.source.ext = ".wav"
          THEN NameStep([names EXCEPT !.step[k] = "prepared"])
          ELSE NameStep([names EXCEPT !.step[k] = "prepared",
                                      !.audio[k] = canonical,
                                      !.written[k] = @ \cup {canonical}])

\* Run k writes the file of its segment.
NameCut(k) ==
    /\ pc = "names"
    /\ names.step[k] = "prepared"
    /\ LET run == names.run[k]
           path == SegmentPath(run.backend, names.audio[k], run.ordinal)
       IN NameStep([names EXCEPT !.step[k] = "cut",
                                 !.written[k] = @ \cup {path}])

NameNext == \E k \in 1..2 : NamePrepare(k) \/ NameCut(k)

NameSpec == NameInit /\ [][NameNext]_vars

\* The segment files two runs have written.
SegmentsWritten(k) == {p \in names.written[k] : p.dir # "output/"}

\* C23: two runs that differ in source file or backend never write the same
\* canonical or segment path, two sources of the same base name in
\* different directories included; two segments of one source and backend
\* that differ in ordinal never write the same segment path.
C23_NoPathWrittenTwice ==
    LET first == names.run[1]
        second == names.run[2]
    IN /\ (first.source # second.source \/ first.backend # second.backend)
            => names.written[1] \cap names.written[2] = {}
       /\ first.ordinal # second.ordinal
            => SegmentsWritten(1) \cap SegmentsWritten(2) = {}

\* ------------------------------------------------------------------- C24

\* C24: after a call that ended in NoSpeechDetected or ServiceUnavailable
\* the run waits 5 seconds exactly when another attempt on the chunk
\* follows, the same for both kinds; it does not wait after a recognized
\* call, after any other outcome, or after the fifth attempt, so that a
\* chunk whose attempts are exhausted has waited exactly four times.
C24_BackoffOnlyBeforeRetry ==
    /\ [][calls' = calls + 1 =>
            waited' =
                IF /\ lastOutcome' \in {"NoSpeechDetected",
                                        "ServiceUnavailable"}
                   /\ MoreAttempts(attempt')
                THEN Append(waited, 5)
                ELSE waited]_vars
    /\ [](pc = "g_chunk_end" /\ ~success => waited = <<5, 5, 5, 5>>)

\* A chunk is exhausted after failures of both kinds and four waits.
C24_Witness ==
    /\ pc = "g_chunk_end"
    /\ ~success
    /\ Len(waited) = 4
    /\ firstOutcome = "NoSpeechDetected"
    /\ lastOutcome = "ServiceUnavailable"

\* ------------------------------------------------------------------- C25

\* C25: the lines are packed greedily, the first line included: a word
\* starts a new line only if the line before it, with a space and the
\* word appended, would be longer than the width.  A word that brings the
\* line to exactly the width stays on it.
C25_GreedyOnEveryLine ==
    FormatterDone =>
        \A k \in 1..(Len(OutLines) - 1) :
            TextLen(OutLines[k]) + 1 + Len(Head(OutLines[k + 1]))
                > MaxLineLength(method)

\* ------------------------------------------------------------------- C26

\* The words of a list of lines, read line by line.
RECURSIVE WordsOfLines(_)
WordsOfLines(ls) ==
    IF ls = <<>> THEN <<>> ELSE Split(Head(ls)) \o WordsOfLines(Tail(ls))

\* C26: the formatter neither loses, duplicates nor reorders words: the
\* words of the re-flowed body, read line by line and paragraph by
\* paragraph, are exactly the whitespace-separated words of the input in
\* their order, also when the first word is longer than the width and when
\* the input is empty.
C26_WordsInOrder ==
    FormatterDone => WordsOfLines(OutLines) = Split(text)

\* An output of several paragraphs whose input begins with a word longer
\* than the width.
C26_Witness ==
    /\ FormatterDone
    /\ Len(Split(text)) >= 2
    /\ Len(Head(Split(text))) > MaxLineLength(method)
    /\ Len(OutParagraphs) >= 2
    /\ Len(OutLines[1]) = 1

\* ------------------------------------------------------------------- C27

\* The element of out that stands before the first word of the statistics.
RECURSIVE BeforeStatsWord(_, _)
BeforeStatsWord(out, before) ==
    IF out = <<>> THEN "none"
    ELSE IF Head(out) \in StatsWords THEN before
    ELSE BeforeStatsWord(Tail(out), Head(out))

\* C27: in the output of main.format_text, as in the outputs of the Vosk
\* and Whisper formatters, the statistics start on a line of their own: a
\* newline stands between the last line of the body and the first line of
\* the statistics, so that the last body line holds words of the input
\* only.
C27_StatisticsOnOwnLine ==
    FormatterDone => BeforeStatsWord(formatted_text, "none") = NewLine

\* ------------------------------------------------------------------- C28

\* C28: main.audio_to_text terminates for every duration and every
\* sequence of outcomes: an iteration moves the offset on by exactly one
\* chunk of 30 s, a chunk takes at most max_retries = 5 calls of the
\* backend and there are at most ceil(d / 30 s) chunks, so that the calls
\* of the finished chunks at 5 apiece and those of the current one never
\* exceed 5 * ceil(d / 30 s); then the run returns True or False.
C28_ChunkLoopTerminates ==
    /\ [][(method = "google" /\ offset' # offset) =>
            (offset' = offset + 30000 /\ offset < duration)]_vars
    /\ [](method = "google" =>
            /\ calls <= 5
            /\ Len(segments) <= Ceil(duration, 30000)
            /\ 5 * ChunksDone + calls <= 5 * Ceil(duration, 30000)
            /\ (pc = "done" => result \in {"True", "False"}))
    /\ (method = "google" => <>(pc = "done" /\ result # "none"))

\* A run of three chunks that took all five calls for each of them, 15 calls
\* in all, has returned.
C28_Witness ==
    /\ method = "google"
    /\ pc = "done"
    /\ result = "True"
    /\ segKind = <<"exhausted", "exhausted", "exhausted">>
    /\ offset = 3 * chunk_duration

\* ------------------------------------------------------------------- C29

\* The largest number of runs started from the window.
MaxRuns == 2

\* The ttk.Button children of the ttk.Frame children of the root window,
\* in the order of winfo_children (transcribe_manager.py:138-175): the
\* button of browse_file in file_frame, then the buttons of
\* check_dependencies and of start_transcription in action_frame.  The
\* radio buttons and the combobox stand in ttk.LabelFrames, which the loops
\* at 276-280 and 352-356 pass over.
Buttons == <<"browse_file", "check_dependencies", "start_transcription">>

StartButton == 3

\* What the entry of the file path can hold: nothing, the path of no file,
\* the path of an audio file, the path of a video file.
FilePaths == {"", "missing", "audio", "video"}

\* How the try block of process_file can end: the backend reported success,
\* the backend reported failure, an exception was raised.
WorkerOutcomes == {"success", "failure", "exception"}

\* transcribe_manager.py:352-356  every button enabled, one after another.
Enabled(buttons) == [k \in DOMAIN buttons |-> "normal"]

\* The state='disabled' of line 280 applied to the buttons of the first
\* frame only.
DisabledInFileFrame(buttons) == [buttons EXCEPT ![1] = "disabled"]

\* transcribe_manager.py:276-280  every button disabled.
Disabled(buttons) == [k \in DOMAIN buttons |-> "disabled"]

\* transcribe_manager.py:126-175  the window as setup_ui leaves it.
GuiInit ==
    /\ NoRun
    /\ pc = "gui"
    /\ names = <<>>
    /\ gui = [buttons |-> [k \in DOMAIN Buttons |-> "normal"],
              file_path_var |-> "",
              method_var |-> "google",
              status_var |-> "ready",
              shown |-> "none",
              workers |-> <<>>,
              runs |-> 0,
              last |-> "none"]

GuiStep(value) ==
    /\ gui' = value
    /\ UNCHANGED <<model, waited, names,
                   method, input_kind, input_format, formatted_text,
                   duration, pc, files, audio_path, segments, offset,
                   total_chunks, pbar, attempt, success, prepared_audio, i,
                   full_text, text, result, calls, firstOutcome, lastOutcome,
                   segKind, segText, fatal>>

\* transcribe_manager.py:195-199  browse_file: the user picks a file.
BrowseFile ==
    /\ pc = "gui"
    /\ gui.buttons[1] = "normal"
    /\ \E file_path \in {"audio", "video"} :
         /\ file_path # gui.file_path_var
         /\ GuiStep([gui EXCEPT !.file_path_var = file_path])

\* transcribe_manager.py:143-144  the entry of the path, which is never
\* disabled: the user types a path or clears it.
TypeFilePath ==
    /\ pc = "gui"
    /\ \E file_path \in {"", "missing"} :
         /\ file_path # gui.file_path_var
         /\ GuiStep([gui EXCEPT !.file_path_var = file_path])

\* transcribe_manager.py:152-159  the radio buttons of the method, which
\* are never disabled.
SelectMethod ==
    /\ pc = "gui"
    /\ \E m \in Methods :
         /\ m # gui.method_var
         /\ GuiStep([gui EXCEPT !.method_var = m])

\* transcribe_manager.py:261-283  start_transcription, the command of the
\* start button, which a disabled button does not invoke: an error box and
\* nothing else without a file; otherwise the status, every button
\* disabled, then the worker thread started.
StartTranscription ==
    /\ pc = "gui"
    /\ gui.buttons[StartButton] = "normal"
    /\ IF gui.file_path_var \in {"", "missing"}
       THEN /\ gui.shown # "showerror"
            /\ GuiStep([gui EXCEPT !.shown = "showerror"])
       ELSE /\ gui.runs < MaxRuns
            /\ GuiStep([gui EXCEPT
                  !.status_var = "recognizing",
                  !.buttons = Disabled(@),
                  !.runs = @ + 1,
                  !.workers = Append(@, [phase |-> "try",
                                         file_path |-> gui.file_path_var,
                                         outcome |-> "none"])])

\* transcribe_manager.py:287-338  the try block of process_file up to the
\* end of the recognition, in worker k.
WorkerTry(k) ==
    /\ pc = "gui"
    /\ k \in DOMAIN gui.workers
    /\ gui.workers[k].phase = "try"
    /\ \E outcome \in WorkerOutcomes :
         GuiStep([gui EXCEPT !.workers[k].phase = "notify",
                             !.workers[k].outcome = outcome])

\* transcribe_manager.py:340-349  the message box of worker k: showinfo
\* after a try block that raised nothing, showerror in the handler.
WorkerNotify(k) ==
    /\ pc = "gui"
    /\ k \in DOMAIN gui.workers
    /\ gui.workers[k].phase = "notify"
    /\ IF gui.workers[k].outcome = "exception"
       THEN GuiStep([gui EXCEPT !.workers[k].phase = "finally",
                                !.status_var = "error",
                                !.shown = "showerror"])
       ELSE GuiStep([gui EXCEPT !.workers[k].phase = "finally",
                                !.status_var = "ready",
                                !.shown = "showinfo"])

\* s without its element k.
Without(s, k) == SubSeq(s, 1, k - 1) \o SubSeq(s, k + 1, Len(s))

\* transcribe_manager.py:350-356  the finally block of process_file, the
\* last statement of worker k: the buttons are enabled and the thread ends.
WorkerFinally(k) ==
    /\ pc = "gui"
    /\ k \in DOMAIN gui.workers
    /\ gui.workers[k].phase = "finally"
    /\ GuiStep([gui EXCEPT !.buttons = Enabled(@),
                           !.last = gui.workers[k].outcome,
                           !.workers = Without(@, k)])

GuiNext ==
    \/ BrowseFile
    \/ TypeFilePath
    \/ SelectMethod
    \/ StartTranscription
    \/ \E k \in 1..MaxRuns : WorkerTry(k) \/ WorkerNotify(k) \/ WorkerFinally(k)

GuiSpec == GuiInit /\ [][GuiNext]_vars

C30_SuccessOnlyWithTranscript ==
    (method \in {"vosk", "whisper"} /\ pc = "done") =>
        (result = "True" <=> NothingFatal)

====
